---- MODULE Spec2Model ----
(***************************************************************************)
(* A model of .github/scripts/generate_events.py: one run of main() reads  *)
(* index.html, collects recent RSS entries, asks the generation service    *)
(* for new events, validates the reply and splices the new events into     *)
(* the document.                                                           *)
(*                                                                         *)
(* Text is modelled at character level: a string is a sequence of          *)
(* one-character strings, so that replace, escaping and the title regex    *)
(* are computed the way the Python code computes them.                     *)
(***************************************************************************)
EXTENDS Integers, Sequences, FiniteSets, TLC

VARIABLES
    pc,               \* position of the run inside main()
    api_key,          \* whether GEMINI_API_KEY is set in the environment
    file,             \* content of index.html on disk
    html,             \* text main() read from index.html
    existing_titles,  \* result of extract_existing_titles(html)
    now,              \* datetime.now(timezone.utc), in hours
    feed_idx,         \* number of RSS_FEEDS urls already processed
    entry_idx,        \* number of entries of the current feed already processed
    entry,            \* the feed entry processed last
    items,            \* fetch_rss_items: items appended so far
    news_items,       \* result of fetch_rss_items()
    prompt,           \* the formatted STYLE_PROMPT
    response,         \* reply of client.models.generate_content
    new_events,       \* result of generate_events()
    raised,           \* the exception that left main(), "" when none
    exit_status,      \* process exit status, -1 while running
    writes,           \* number of times index.html was written
    requests,         \* number of requests sent to the generation service
    stages            \* the positions the run has been at, in order

vars == <<pc, api_key, file, html, existing_titles, now, feed_idx, entry_idx, entry, items,
          news_items, prompt, response, new_events, raised, exit_status,
          writes, requests, stages>>

(***************************************************************************)
(* Characters and strings                                                  *)
(***************************************************************************)
NL == "\n"
SQ == "'"
DQ == "\""
BS == "\\"

Spaces(n) == [i \in 1..n |-> " "]

\* the set of sequences over S of length 0..n
SeqsUpTo(S, n) == UNION {[1..k -> S] : k \in 0..n}

Range(s) == {s[i] : i \in 1..Len(s)}

Min(S) == CHOOSE x \in S : \A y \in S : x <= y

RECURSIVE Concat(_)
Concat(ss) == IF ss = <<>> THEN <<>> ELSE Head(ss) \o Concat(Tail(ss))

\* sep.join(ss)
RECURSIVE Join(_, _)
Join(ss, sep) ==
    IF ss = <<>> THEN <<>>
    ELSE IF Len(ss) = 1 THEN Head(ss)
    ELSE Head(ss) \o sep \o Join(Tail(ss), sep)

\* s[i:].startswith(pat), with i counted from 1
StartsWithAt(s, i, pat) ==
    /\ i + Len(pat) - 1 <= Len(s)
    /\ \A k \in 1..Len(pat) : s[i + k - 1] = pat[k]

\* the first index >= i where pat occurs in s, 0 when there is none
FindFrom(s, pat, i) ==
    LET hits == {j \in i..(Len(s) - Len(pat) + 1) : StartsWithAt(s, j, pat)}
    IN  IF hits = {} THEN 0 ELSE Min(hits)

\* str.replace(old, new): every non-overlapping occurrence, left to right
RECURSIVE ReplaceFrom(_, _, _, _)
ReplaceFrom(s, old, new, i) ==
    LET j == FindFrom(s, old, i)
    IN  IF j = 0 THEN SubSeq(s, i, Len(s))
        ELSE SubSeq(s, i, j - 1) \o new \o ReplaceFrom(s, old, new, j + Len(old))

Replace(s, old, new) == ReplaceFrom(s, old, new, 1)

\* str.count(pat)
RECURSIVE CountFrom(_, _, _)
CountFrom(s, pat, i) ==
    LET j == FindFrom(s, pat, i)
    IN  IF j = 0 THEN 0 ELSE 1 + CountFrom(s, pat, j + Len(pat))

Count(s, pat) == CountFrom(s, pat, 1)

\* the characters \s matches and str.strip() removes
Whitespace == {" ", NL, "\t", "\r"}

\* str.strip()
Strip(s) ==
    LET keep == {i \in 1..Len(s) : s[i] \notin Whitespace}
    IN  IF keep = {} THEN <<>>
        ELSE SubSeq(s, Min(keep), CHOOSE x \in keep : \A y \in keep : y <= x)

(***************************************************************************)
(* inject_events                                                           *)
(***************************************************************************)
ANCHOR == <<"c", "o", "n", "s", "t", " ", "e", "v", "e", "n", "t", "s", " ", "=", " ", "[">>

\* ", ".join(f"'{t}'" for t in event["tags"])
TagsStr(tags) ==
    Join([i \in 1..Len(tags) |-> <<SQ>> \o tags[i] \o <<SQ>>], <<",", " ">>)

\* the f-string of one event
EventStr(event) ==
    Concat(<<
        Spaces(12), <<"{", NL>>,
        Spaces(16), <<"d", "a", "t", "e", ":", " ", SQ>>, event.date, <<SQ, ",", NL>>,
        Spaces(16), <<"t", "i", "t", "l", "e", ":", " ", SQ>>, event.title, <<SQ, ",", NL>>,
        Spaces(16), <<"d", "e", "s", "c", ":", " ", SQ>>, event.desc, <<SQ, ",", NL>>,
        Spaces(16), <<"t", "a", "g", "s", ":", " ", "[">>, TagsStr(event.tags), <<"]", NL>>,
        Spaces(12), <<"}">>
    >>)

\* ",\n".join(event_strings)
InsertBlock(events) ==
    Join([i \in 1..Len(events) |-> EventStr(events[i])], <<",", NL>>)

\* a faulty inject_events that leaves out the comma after the last new block
inject_events_NoTrailingComma(doc, events) ==
    Replace(doc, ANCHOR, ANCHOR \o <<NL>> \o InsertBlock(events))

inject_events(doc, events) ==
    Replace(doc, ANCHOR, ANCHOR \o <<NL>> \o InsertBlock(events) \o <<",">>)

(***************************************************************************)
(* extract_existing_titles: re.findall(r"title:\s*['\"](.+?)['\"]", html)  *)
(***************************************************************************)
TITLE_KEY == <<"t", "i", "t", "l", "e", ":">>
Quotes == {SQ, DQ}

\* the index after the longest run of whitespace that starts at i
SkipSpace(s, i) ==
    LET stop == {j \in i..Len(s) : s[j] \notin Whitespace}
    IN  IF stop = {} THEN Len(s) + 1 ELSE Min(stop)

\* For a match attempt whose group starts at g: the index of the closing
\* quote chosen by the lazy (.+?), 0 when the attempt fails.  The group takes
\* at least one character, "." matches anything but a newline.
CloseQuote(s, g) ==
    LET ends == {e \in (g + 1)..Len(s) :
                    /\ s[e] \in Quotes
                    /\ \A k \in g..(e - 1) : s[k] # NL}
    IN  IF ends = {} THEN 0 ELSE Min(ends)

\* the match of the whole pattern that starts at i: <<group start, closing
\* quote>>, <<0, 0>> when the pattern does not match at i
MatchAt(s, i) ==
    IF ~StartsWithAt(s, i, TITLE_KEY) THEN <<0, 0>>
    ELSE LET q == SkipSpace(s, i + Len(TITLE_KEY))
         IN  IF q > Len(s) \/ s[q] \notin Quotes THEN <<0, 0>>
             ELSE LET e == CloseQuote(s, q + 1)
                  IN  IF e = 0 THEN <<0, 0>> ELSE <<q + 1, e>>

\* findall: leftmost matches, the scan resuming after each match
RECURSIVE FindTitles(_, _)
FindTitles(s, i) ==
    LET starts == {j \in i..Len(s) : MatchAt(s, j)[1] # 0}
    IN  IF starts = {} THEN <<>>
        ELSE LET m == MatchAt(s, Min(starts))
             IN  <<SubSeq(s, m[1], m[2] - 1)>> \o FindTitles(s, m[2] + 1)

extract_existing_titles(doc) == FindTitles(doc, 1)

(***************************************************************************)
(* generate_events: the reply of the generation service and its validation *)
(***************************************************************************)
LOWER == <<"a", "b", "c", "d", "e", "f", "g", "h", "i", "j", "k", "l", "m",
           "n", "o", "p", "q", "r", "s", "t", "u", "v", "w", "x", "y", "z">>
UPPER == <<"A", "B", "C", "D", "E", "F", "G", "H", "I", "J", "K", "L", "M",
           "N", "O", "P", "Q", "R", "S", "T", "U", "V", "W", "X", "Y", "Z">>

\* str.upper()
Upper(s) ==
    [i \in 1..Len(s) |->
        IF \E k \in 1..Len(LOWER) : LOWER[k] = s[i]
        THEN UPPER[CHOOSE k \in 1..Len(LOWER) : LOWER[k] = s[i]]
        ELSE s[i]]

NONE_TEXT == <<"N", "O", "N", "E">>

valid_tags == {
    <<"s", "c", "a", "n", "d", "a", "l">>,
    <<"u", "t", "u", "r", "n">>,
    <<"r", "e", "s", "i", "g", "n", "a", "t", "i", "o", "n">>,
    <<"b", "r", "o", "k", "e", "n", "-", "p", "r", "o", "m", "i", "s", "e">>,
    <<"f", "a", "i", "l", "u", "r", "e">>,
    <<"p", "o", "l", "l", "s">>,
    <<"e", "c", "o", "n", "o", "m", "i", "c">>,
    <<"s", "e", "c", "u", "r", "i", "t", "y">>,
    <<"h", "y", "p", "o", "c", "r", "i", "s", "y">>,
    <<"c", "r", "i", "s", "i", "s">>,
    <<"p", "r", "e", "s", "s">>,
    <<"r", "e", "b", "e", "l", "l", "i", "o", "n">>}

DEFAULT_TAGS == << <<"c", "r", "i", "s", "i", "s">> >>

\* validated[:3]
MAX_EVENTS == 3

REQUIRED_KEYS == {"date", "title", "desc", "tags"}

(* The reply text is one of two shapes, wrapped in a fence or not:          *)
(*   shape "word": the characters in word, a text that is not JSON;         *)
(*   shape "json": the JSON text of value.                                  *)
(* fence is "none", "json" (```json ... ```) or "bare" (``` ... ```).       *)
(* A JSON value is [t |-> "array", elems |-> ...] or [t |-> "other"]; an    *)
(* element of the array has kind "number", "string" (a string holding none  *)
(* of the key names) or "object"; an object has the keys in has.  A title   *)
(* or desc value is a string (t = "str") or a number (t = "num"); a tags    *)
(* value is a list of items, a number or a string; a tags item is a string  *)
(* or a nested list.                                                        *)

\* text = response.text.strip(); text.upper() == "NONE"
IsNoneReply(r) ==
    /\ r.shape = "word"
    /\ r.fence = "none"
    /\ Upper(Strip(r.word)) = NONE_TEXT

\* the two re.sub calls, then json.loads: the parsed value, or a
\* JSONDecodeError.  The opening fence is removed only when it is ```json,
\* so a bare fence stays in the text and json.loads rejects it.
JsonLoads(r) ==
    IF r.shape = "json" /\ r.fence \in {"none", "json"}
    THEN [error |-> FALSE, value |-> r.value]
    ELSE [error |-> TRUE, value |-> [t |-> "other", elems |-> <<>>]]

\* a faulty filter that keeps every tag
FilterTags_KeepAll(its) == [i \in 1..Len(its) |-> its[i].s]

\* [t for t in event["tags"] if t in valid_tags], for a list of strings
RECURSIVE FilterTags(_)
FilterTags(its) ==
    IF its = <<>> THEN <<>>
    ELSE IF Head(its).s \in valid_tags
         THEN <<Head(its).s>> \o FilterTags(Tail(its))
         ELSE FilterTags(Tail(its))

\* event["title"].replace("'", "\\'")
EscapeQuotes(s) == Replace(s, <<SQ>>, <<BS, SQ>>)

\* The exception the loop body raises on element e, "" when it raises none.
ElementError(e) ==
    IF e.kind = "number" THEN "TypeError"            \* k in event
    ELSE IF e.kind = "string" \/ ~(REQUIRED_KEYS \subseteq e.has) THEN ""
    ELSE IF e.tags.t = "num" THEN "TypeError"        \* for t in event["tags"]
    ELSE IF e.tags.t = "list" /\ \E i \in 1..Len(e.tags.items) :
                                      e.tags.items[i].t = "list"
         THEN "TypeError"                            \* unhashable: t in valid_tags
    ELSE IF e.title.t # "str" \/ e.desc.t # "str" THEN "AttributeError"
    ELSE ""

\* whether the loop body skips element e (the continue of line 193)
Dropped(e) == e.kind = "string" \/ ~(REQUIRED_KEYS \subseteq e.has)

\* the event the loop body appends for element e
ValidatedEvent(e) ==
    LET kept == IF e.tags.t = "list" THEN FilterTags(e.tags.items) ELSE <<>>
    IN  [date  |-> e.date,
         title |-> EscapeQuotes(e.title.s),
         desc  |-> EscapeQuotes(e.desc.s),
         tags  |-> IF kept = <<>> THEN DEFAULT_TAGS ELSE kept]

\* the validation loop over every element: the exception it ends with and
\* the list validated
RECURSIVE ValidateLoop(_, _)
ValidateLoop(elems, validated) ==
    IF elems = <<>> THEN [raised |-> "", events |-> validated]
    ELSE LET e == Head(elems)
         IN  IF ElementError(e) # "" THEN [raised |-> ElementError(e), events |-> <<>>]
             ELSE IF Dropped(e) THEN ValidateLoop(Tail(elems), validated)
             ELSE ValidateLoop(Tail(elems), Append(validated, ValidatedEvent(e)))

\* validated[:3]
Cap(validated) ==
    SubSeq(validated, 1, IF Len(validated) < MAX_EVENTS THEN Len(validated) ELSE MAX_EVENTS)

\* lines 166-202 of generate_events on reply r
ValidateReply(r) ==
    IF IsNoneReply(r) THEN [raised |-> "", events |-> <<>>]
    ELSE LET parsed == JsonLoads(r)
         IN  IF parsed.error \/ parsed.value.t # "array"
             THEN [raised |-> "", events |-> <<>>]
             ELSE LET res == ValidateLoop(parsed.value.elems, <<>>)
                  IN  [raised |-> res.raised, events |-> Cap(res.events)]

(***************************************************************************)
(* fetch_rss_items                                                         *)
(***************************************************************************)
HOURS_LOOKBACK == 8
NUM_FEEDS == 3

NoTime == [set |-> FALSE, at |-> 0]
At(t) == [set |-> TRUE, at |-> t]

\* datetime.now(timezone.utc) - timedelta(hours=HOURS_LOOKBACK)
Cutoff(t) == t - HOURS_LOOKBACK

\* published: published_parsed when set, else updated_parsed when set
Published(e) ==
    IF e.published_parsed.set THEN e.published_parsed
    ELSE IF e.updated_parsed.set THEN e.updated_parsed
    ELSE NoTime

\* a faulty test that also drops the entry published exactly at the cutoff
TooOld_AtCutoff(e, cutoff) == Published(e).set /\ Published(e).at <= cutoff

\* if published and published < cutoff: continue
TooOld(e, cutoff) == Published(e).set /\ Published(e).at < cutoff

\* re.sub(r"<[^>]+>", "", summary)
RECURSIVE StripTags(_, _)
StripTags(s, i) ==
    LET opens == {j \in i..Len(s) :
                    /\ s[j] = "<"
                    /\ j + 1 <= Len(s) /\ s[j + 1] # ">"
                    /\ \E k \in (j + 2)..Len(s) : s[k] = ">"}
    IN  IF opens = {} THEN SubSeq(s, i, Len(s))
        ELSE LET j == Min(opens)
                 k == Min({k \in (j + 2)..Len(s) : s[k] = ">"})
             IN  SubSeq(s, i, j - 1) \o StripTags(s, k + 1)

\* title = entry.get("title", "").strip(); summary likewise, tags removed
ItemOf(e) ==
    [title |-> Strip(e.title), summary |-> StripTags(Strip(e.summary), 1)]

\* what the loop body (lines 105-121) makes of items for entry e
AfterEntry(its, e, cutoff) ==
    IF TooOld(e, cutoff) THEN its
    ELSE IF ItemOf(e).title # <<>> THEN Append(its, ItemOf(e))
    ELSE its

\* deduplicate by title, first seen first
RECURSIVE Unique(_, _)
Unique(its, seen) ==
    IF its = <<>> THEN <<>>
    ELSE IF Head(its).title \in seen THEN Unique(Tail(its), seen)
    ELSE <<Head(its)>> \o Unique(Tail(its), seen \cup {Head(its).title})

(***************************************************************************)
(* Inputs                                                                  *)
(***************************************************************************)
MaxEntries == 2     \* entries read from one feed
MaxElems == 4       \* elements of the array in a reply
MaxTags == 3        \* items of one tags list
MaxDocPieces == 2   \* pieces a document is put together from

Str(v) == [t |-> "str", s |-> v]
Num == [t |-> "num", s |-> <<>>]
TagList(ts) == [t |-> "list", items |-> ts]
Object(has, date, title, desc, tags) ==
    [kind |-> "object", has |-> has, date |-> date, title |-> title,
     desc |-> desc, tags |-> tags]
NonObject(kind) ==
    [kind |-> kind, has |-> {}, date |-> <<>>, title |-> Num, desc |-> Num,
     tags |-> TagList(<<>>)]
Array(elems) == [t |-> "array", elems |-> elems]
NotArray == [t |-> "other", elems |-> <<>>]
JsonReply(fence, value) ==
    [shape |-> "json", fence |-> fence, word |-> <<>>, value |-> value]
WordReply(fence, word) ==
    [shape |-> "word", fence |-> fence, word |-> word, value |-> NotArray]

TagPolls == Str(<<"p", "o", "l", "l", "s">>)
TagCrisis == Str(<<"c", "r", "i", "s", "i", "s">>)
TagPress == Str(<<"p", "r", "e", "s", "s">>)
TagBogus == Str(<<"b", "o", "g", "u", "s">>)
TagNested == [t |-> "list", s |-> <<>>]

DATE == <<"2", "0", "2", "6", "-", "0", "3", "-", "0", "1">>

OldEvent ==
    [date |-> DATE, title |-> <<"O", "l", "d", " ", "E", "v", "e", "n", "t">>, desc |-> <<"O", "l", "d", ".">>,
     tags |-> << <<"c", "r", "i", "s", "i", "s">> >>]

\* const events = [ followed by one existing record
BaseDoc == ANCHOR \o <<NL>> \o EventStr(OldEvent) \o <<NL, "]", ";">>
EmptyDoc == ANCHOR \o <<"]", ";">>

ElemOk ==
    Object(REQUIRED_KEYS, DATE, Str(<<"P", "M", " ", "R", "e", "s", "i", "g", "n", "s">>), Str(<<"S", "t", "a", "t", "e", "m", "e", "n", "t", " ", "g", "i", "v", "e", "n", ".">>),
           TagList(<< Str(<<"r", "e", "s", "i", "g", "n", "a", "t", "i", "o", "n">>) >>))
ElemQuote ==
    Object(REQUIRED_KEYS, DATE, Str(<<"I", "t", "'", "s">>), Str(<<"a", "\"", "b">>),
           TagList(<<TagPolls, TagBogus, TagCrisis>>))
ElemBackslash ==
    Object(REQUIRED_KEYS, DATE, Str(<<BS, SQ>>), Str(<<"d">>), TagList(<<TagBogus>>))
ElemDateQuote ==
    Object(REQUIRED_KEYS, <<SQ>>, Str(<<"t">>), Str(<<"d">>), TagList(<<>>))
ElemNoTags ==
    Object(REQUIRED_KEYS \ {"tags"}, DATE, Str(<<"t">>), Str(<<"d">>), TagList(<<>>))
ElemNumber == NonObject("number")
ElemString == NonObject("string")
ElemTitleNumber ==
    Object(REQUIRED_KEYS, DATE, Num, Str(<<"d">>), TagList(<<TagPolls>>))
ElemTagsNumber ==
    Object(REQUIRED_KEYS, DATE, Str(<<"t">>), Str(<<"d">>), [t |-> "num", items |-> <<>>])
ElemTagsString ==
    Object(REQUIRED_KEYS, DATE, Str(<<"t">>), Str(<<"d">>), [t |-> "str", items |-> <<>>])

Elems == {ElemOk, ElemQuote, ElemBackslash, ElemDateQuote, ElemNoTags, ElemNumber}

\* the replies a run of main() is checked with
MainReplies == {
    WordReply("none", <<"N", "O", "N", "E">>),
    WordReply("none", <<" ", "n", "o", "n", "e", "\n">>),
    WordReply("json", <<"N", "O", "N", "E">>),
    WordReply("none", <<"n", "o", "p", "e">>),
    JsonReply("none", NotArray),
    JsonReply("bare", Array(<<ElemOk>>)),
    JsonReply("none", Array(<<>>)),
    JsonReply("json", Array(<<ElemOk>>)),
    JsonReply("none", Array(<<ElemNoTags, ElemString>>)),
    JsonReply("none", Array(<<ElemOk, ElemNumber>>)),
    JsonReply("none", Array(<<ElemTagsString, ElemTitleNumber>>)),
    JsonReply("none", Array(<<ElemTagsNumber>>)),
    JsonReply("json", Array(<<ElemQuote, ElemOk, ElemOk, ElemBackslash>>))}

\* the replies the validator is checked with: every array of Elems
ArrayReplies == {JsonReply("none", Array(es)) : es \in SeqsUpTo(Elems, MaxElems)}

\* one object, with every list of tags, a string or a number as its tags
TagItems == {TagPolls, TagCrisis, TagPress, TagBogus, TagNested}
TagReplies ==
    {JsonReply("json", Array(<<Object(REQUIRED_KEYS, DATE, Str(<<"t">>), Str(<<"d">>),
                                       TagList(ts))>>)) :
        ts \in SeqsUpTo(TagItems, MaxTags)}
    \cup {JsonReply("none", Array(<<ElemTagsString>>)),
          JsonReply("none", Array(<<ElemTagsNumber>>))}

Entry(p, u, title, summary) ==
    [published_parsed |-> p, updated_parsed |-> u, title |-> title, summary |-> summary]

\* entry times around the cutoff of a run at instant t
Times(t) == {NoTime, At(Cutoff(t) - 1), At(Cutoff(t))}

SUMMARY == <<" ", "<", "p", ">", "x", "<", "/", "p", ">">>

\* the entries a run of main() is checked with
MainEntries(t) == {
    Entry(At(t), NoTime, <<"P", "M", " ", "R", "e", "s", "i", "g", "n", "s", ":", " ", "F", "u", "l", "l", " ", "S", "t", "a", "t", "e", "m", "e", "n", "t">>, SUMMARY),
    Entry(At(Cutoff(t) - 1), At(t), <<"B">>, <<>>),
    Entry(NoTime, NoTime, <<"B">>, <<>>)}

\* the entries the collector is checked with
EntryTitles == {<<"A", " ">>, <<"B">>, <<" ">>}
Entries(t) ==
    {Entry(p, u, title, SUMMARY) : p \in Times(t), u \in Times(t), title \in EntryTitles}

\* the records inject_events is checked with
InjectRecords == {
    [date |-> DATE, title |-> <<"P", "M", " ", "R", "e", "s", "i", "g", "n", "s">>, desc |-> <<"S", "t", "a", "t", "e", "m", "e", "n", "t", " ", "g", "i", "v", "e", "n", ".">>, tags |-> << <<"r", "e", "s", "i", "g", "n", "a", "t", "i", "o", "n">> >>],
    [date |-> DATE, title |-> <<"I", "t", "\\", "'", "s">>, desc |-> <<"d">>, tags |-> << <<"p", "o", "l", "l", "s">>, <<"c", "r", "i", "s", "i", "s">> >>],
    [date |-> DATE, title |-> <<"a", "\"", "b">>, desc |-> <<"d">>, tags |-> DEFAULT_TAGS],
    [date |-> DATE, title |-> ANCHOR, desc |-> <<>>, tags |-> DEFAULT_TAGS]}

\* the documents inject_events is checked with: every sequence of pieces
Pieces == {ANCHOR, <<NL>> \o EventStr(OldEvent), <<"]", ";">>,
           <<"t", "i", "t", "l", "e", ":", " ", "\"", "Q", "\"", ",">>}
Docs == {Concat(ps) : ps \in SeqsUpTo(Pieces, MaxDocPieces)}

(***************************************************************************)
(* main                                                                    *)
(***************************************************************************)
NoEntry == [set |-> FALSE, e |-> Entry(NoTime, NoTime, <<>>, <<>>), before |-> 0]
NoPrompt == [today |-> 0, existing_titles |-> <<>>, news_items |-> <<>>]
NoReply == WordReply("none", <<>>)

Terminal == {"Done", "Stop", "Exit", "Crashed"}

\* the run moves to position p
Go(p) == pc' = p /\ stages' = Append(stages, p)

\* a faulty test that never takes the early return
NoNewsItems_Never(its) == FALSE

\* if not news_items: return
NoNewsItems(its) == its = <<>>

\* a faulty test that never takes the early return
NoNewEvents_Never(events) == FALSE

\* if not new_events: return
NoNewEvents(events) == events = <<>>

\* if not api_key: sys.exit(1)
KeyMissing(key) == ~key

\* "\n".join(f"- {item['title']}: {item['summary']}" for item in news_items)
NewsText(its) ==
    Join([i \in 1..Len(its) |-> <<"-", " ">> \o its[i].title \o <<":", " ">> \o its[i].summary],
         <<NL>>)

\* "\n".join(f"- {t}" for t in existing_titles)
ExistingText(titles) ==
    Join([i \in 1..Len(titles) |-> <<"-", " ">> \o titles[i]], <<NL>>)

\* existing_text or "(none yet)", news_text or "(no recent items found)"
OrElse(text, placeholder) == IF text = <<>> THEN placeholder ELSE text

\* with open(index_path) as f: html = f.read(); extract_existing_titles(html)
ReadIndex ==
    /\ pc = "Read"
    /\ html' = file
    /\ existing_titles' = extract_existing_titles(file)
    /\ Go("Fetch")
    /\ UNCHANGED <<api_key, file, now, feed_idx, entry_idx, entry, items, news_items, prompt,
                   response, new_events, raised, exit_status, writes, requests>>

\* requests.get, raise_for_status or feedparser.parse raises: the warning of
\* line 123, and the loop goes on to the next url
FeedFails ==
    /\ pc = "Fetch"
    /\ feed_idx < NUM_FEEDS
    /\ entry_idx = 0
    /\ feed_idx' = feed_idx + 1
    /\ UNCHANGED <<pc, api_key, file, html, existing_titles, now, entry_idx, entry,
                   items, news_items, prompt, response, new_events, raised,
                   exit_status, writes, requests, stages>>

\* one pass of the loop over feed.entries (lines 104-121)
ProcessEntry(entries) ==
    /\ pc = "Fetch"
    /\ feed_idx < NUM_FEEDS
    /\ entry_idx < MaxEntries
    /\ \E e \in entries :
         /\ entry' = [set |-> TRUE, e |-> e, before |-> Len(items)]
         /\ items' = AfterEntry(items, e, Cutoff(now))
    /\ entry_idx' = entry_idx + 1
    /\ UNCHANGED <<pc, api_key, file, html, existing_titles, now, feed_idx,
                   news_items, prompt, response, new_events, raised, exit_status,
                   writes, requests, stages>>

\* the feed has no more entries: the loop goes on to the next url
FeedEnds ==
    /\ pc = "Fetch"
    /\ feed_idx < NUM_FEEDS
    /\ feed_idx' = feed_idx + 1
    /\ entry_idx' = 0
    /\ UNCHANGED <<pc, api_key, file, html, existing_titles, now, entry, items,
                   news_items, prompt, response, new_events, raised, exit_status,
                   writes, requests, stages>>

\* the deduplication and return of fetch_rss_items, and main's test of the
\* result
FetchReturn ==
    /\ pc = "Fetch"
    /\ feed_idx = NUM_FEEDS
    /\ LET unique == Unique(items, {})
       IN  /\ news_items' = unique
           /\ IF NoNewsItems(unique)
              THEN Go("Stop") /\ exit_status' = 0
              ELSE Go("CheckKey") /\ UNCHANGED exit_status
    /\ UNCHANGED <<api_key, file, html, existing_titles, now, feed_idx, entry_idx,
                   entry, items, prompt, response, new_events, raised, writes,
                   requests>>

\* generate_events, lines 144-149
CheckKey ==
    /\ pc = "CheckKey"
    /\ IF KeyMissing(api_key)
       THEN Go("Exit") /\ exit_status' = 1 /\ raised' = "SystemExit"
       ELSE Go("BuildPrompt") /\ UNCHANGED <<exit_status, raised>>
    /\ UNCHANGED <<api_key, file, html, existing_titles, now, feed_idx, entry_idx, entry, items,
                   news_items, prompt, response, new_events, writes, requests>>

\* generate_events, lines 151-160
BuildPrompt ==
    /\ pc = "BuildPrompt"
    /\ prompt' = [today |-> now,
                  existing_titles |->
                      OrElse(ExistingText(existing_titles),
                             <<"(", "n", "o", "n", "e", " ", "y", "e", "t", ")">>),
                  news_items |->
                      OrElse(NewsText(news_items),
                             <<"(", "n", "o", " ", "r", "e", "c", "e", "n", "t", " ",
                               "i", "t", "e", "m", "s", " ", "f", "o", "u", "n", "d", ")">>)]
    /\ Go("Generate")
    /\ UNCHANGED <<api_key, file, html, existing_titles, now, feed_idx, entry_idx, entry, items,
                   news_items, response, new_events, raised, exit_status, writes,
                   requests>>

\* client.models.generate_content: the service replies, or the call raises
Generate(replies) ==
    /\ pc = "Generate"
    /\ requests' = requests + 1
    /\ \/ /\ \E r \in replies : response' = r
          /\ Go("Validate")
          /\ UNCHANGED <<raised, exit_status>>
       \/ /\ Go("Crashed")
          /\ raised' = "APIError"
          /\ exit_status' = 1
          /\ UNCHANGED response
    /\ UNCHANGED <<api_key, file, html, existing_titles, now, feed_idx, entry_idx, entry, items,
                   news_items, prompt, new_events, writes>>

\* generate_events, lines 166-202, and main's test of the result
Validate ==
    /\ pc = "Validate"
    /\ LET res == ValidateReply(response)
       IN  IF res.raised # ""
           THEN /\ Go("Crashed")
                /\ raised' = res.raised
                /\ exit_status' = 1
                /\ UNCHANGED new_events
           ELSE /\ new_events' = res.events
                /\ IF NoNewEvents(res.events)
                   THEN Go("Stop") /\ exit_status' = 0
                   ELSE Go("Inject") /\ UNCHANGED exit_status
                /\ UNCHANGED raised
    /\ UNCHANGED <<api_key, file, html, existing_titles, now, feed_idx, entry_idx, entry, items,
                   news_items, prompt, response, writes, requests>>

\* updated_html = inject_events(html, new_events); f.write(updated_html)
InjectPersist ==
    /\ pc = "Inject"
    /\ file' = inject_events(html, new_events)
    /\ writes' = writes + 1
    /\ Go("Done")
    /\ exit_status' = 0
    /\ UNCHANGED <<api_key, html, existing_titles, now, feed_idx, entry_idx, entry, items,
                   news_items, prompt, response, new_events, raised, requests>>

(***************************************************************************)
(* Specifications                                                          *)
(***************************************************************************)
\* what every run starts from, apart from its position and its inputs
Fresh ==
    /\ now = HOURS_LOOKBACK + 1
    /\ feed_idx = 0
    /\ entry_idx = 0
    /\ entry = NoEntry
    /\ items = <<>>
    /\ prompt = NoPrompt
    /\ raised = ""
    /\ exit_status = -1
    /\ writes = 0
    /\ requests = 0

\* a whole run of main()
Init ==
    /\ Fresh
    /\ pc = "Read"
    /\ api_key \in BOOLEAN
    /\ file \in {BaseDoc, EmptyDoc}
    /\ html = <<>>
    /\ existing_titles = <<>>
    /\ news_items = <<>>
    /\ response = NoReply
    /\ new_events = <<>>
    /\ stages = <<"Read">>

Next ==
    \/ ReadIndex
    \/ FeedFails
    \/ ProcessEntry(MainEntries(now))
    \/ FeedEnds
    \/ FetchReturn
    \/ CheckKey
    \/ BuildPrompt
    \/ Generate(MainReplies)
    \/ Validate
    \/ InjectPersist

Spec == Init /\ [][Next]_vars

\* fetch_rss_items on every list of entries
InitFetch ==
    /\ Fresh
    /\ pc = "Fetch"
    /\ api_key = TRUE
    /\ file = BaseDoc
    /\ html = BaseDoc
    /\ existing_titles = extract_existing_titles(BaseDoc)
    /\ news_items = <<>>
    /\ response = NoReply
    /\ new_events = <<>>
    /\ stages = <<"Read", "Fetch">>

NextFetch == FeedFails \/ ProcessEntry(Entries(now)) \/ FeedEnds \/ FetchReturn

SpecFetch == InitFetch /\ [][NextFetch]_vars

\* the validation of a reply, and the injection of what it returns
InitReply(replies) ==
    /\ Fresh
    /\ pc = "Validate"
    /\ api_key = TRUE
    /\ file = BaseDoc
    /\ html = BaseDoc
    /\ existing_titles = extract_existing_titles(BaseDoc)
    /\ news_items = <<[title |-> <<"A">>, summary |-> <<>>]>>
    /\ response \in replies
    /\ new_events = <<>>
    /\ stages = <<"Read", "Fetch", "CheckKey", "BuildPrompt", "Generate", "Validate">>

InitValidate == InitReply(ArrayReplies)
InitTags == InitReply(TagReplies)

NextValidate == Validate \/ InjectPersist

SpecValidate == InitValidate /\ [][NextValidate]_vars
SpecTags == InitTags /\ [][NextValidate]_vars

\* inject_events on every document and every list of at most 3 records
InitInject ==
    /\ Fresh
    /\ pc = "Inject"
    /\ api_key = TRUE
    /\ file \in Docs
    /\ html = file
    /\ existing_titles = extract_existing_titles(file)
    /\ news_items = <<[title |-> <<"A">>, summary |-> <<>>]>>
    /\ response = NoReply
    /\ new_events \in SeqsUpTo(InjectRecords, MAX_EVENTS)
    /\ stages = <<"Read", "Fetch", "CheckKey", "BuildPrompt", "Generate", "Validate",
                  "Inject">>

NextInject == InjectPersist

SpecInject == InitInject /\ [][NextInject]_vars

(***************************************************************************)
(* Properties                                                              *)
(***************************************************************************)
Rank(p) ==
    CASE p = "Read" -> 0
      [] p = "Fetch" -> 1
      [] p = "CheckKey" -> 2
      [] p = "BuildPrompt" -> 3
      [] p = "Generate" -> 4
      [] p = "Validate" -> 5
      [] p = "Inject" -> 6
      [] OTHER -> 7

FetchReturned == pc \notin {"Read", "Fetch"}
ValidateReturned == "Validate" \in Range(stages) /\ pc \notin {"Validate", "Crashed"}

\* C1: a run moves through Read, Fetch, (CheckKey,) BuildPrompt, Generate,
\* Validate, Inject, Done in this order, never twice at a position and never
\* back; it is at Generate only with at least one news item, at Inject only
\* with at least one validated record, and an empty Fetch or Validate result
\* sends it to Stop without any later position.
C1_LinearRun ==
    /\ stages # <<>> /\ stages[Len(stages)] = pc
    /\ \A i, j \in 1..Len(stages) : i < j => Rank(stages[i]) < Rank(stages[j])
    /\ "Generate" \in Range(stages) => news_items # <<>>
    /\ "Inject" \in Range(stages) => new_events # <<>>
    /\ (FetchReturned /\ news_items = <<>>) =>
           pc = "Stop" /\ Range(stages) = {"Read", "Fetch", "Stop"}
    /\ (ValidateReturned /\ new_events = <<>>) =>
           pc = "Stop" /\ "Inject" \notin Range(stages) /\ "Done" \notin Range(stages)

C1_Witness ==
    /\ pc = "Done"
    /\ stages = <<"Read", "Fetch", "CheckKey", "BuildPrompt", "Generate", "Validate",
                  "Inject", "Done">>

\* C2: index.html is written at most once, and only with the complete
\* updated text, holding the block of every one of at least one validated
\* record; a run that ends with no new record leaves the file as it was read.
C2_WrittenOnceWhenComplete ==
    /\ writes <= 1
    /\ writes = 1 =>
           /\ pc = "Done"
           /\ new_events # <<>>
           /\ \A i \in 1..Len(new_events) : FindFrom(file, EventStr(new_events[i]), 1) # 0
           /\ Len(file) > Len(html) + Len(EventStr(new_events[1]))
           /\ SubSeq(file, Len(file) - 1, Len(file)) = SubSeq(html, Len(html) - 1, Len(html))
    /\ (pc \in Terminal /\ new_events = <<>>) => writes = 0 /\ file = html
    /\ (writes = 0 /\ pc # "Read") => file = html

C2_Witness == pc = "Done" /\ writes = 1 /\ Len(new_events) = MAX_EVENTS /\ file # html

\* C3: a run without the credential ends with a non-zero exit status and
\* sends no request, whatever the feeds return; a run with the credential
\* never ends with a non-zero exit status.
C3_ExitStatusFollowsCredential ==
    pc \in Terminal =>
        /\ ~api_key => (exit_status # 0 /\ requests = 0)
        /\ api_key => exit_status = 0

\* C4: with the credential present, whatever text the service replied, the
\* validator returns a list of records and the run completes normally.
C4_NoFailureLeavesRun ==
    (api_key /\ "Validate" \in Range(stages) /\ pc # "Validate") =>
        (pc \in {"Stop", "Inject", "Done"} /\ raised = "")

\* Reading s as the content of a JavaScript '...' literal from index i: no
\* quote ends the literal early and no backslash is left to escape the
\* closing delimiter.
RECURSIVE SafeInLiteral(_, _)
SafeInLiteral(s, i) ==
    IF i > Len(s) THEN TRUE
    ELSE IF s[i] = BS THEN i + 1 <= Len(s) /\ SafeInLiteral(s, i + 2)
    ELSE IF s[i] = SQ THEN FALSE
    ELSE SafeInLiteral(s, i + 1)

\* C5: in every record the validator returns, each single quote of title
\* and desc is preceded by the escape character, and no field's content
\* (date, title, desc) holds an unescaped single quote where it is rendered
\* between the quotes the renderer writes.
C5_NoUnescapedQuote ==
    pc = "Done" =>
        \A i \in 1..Len(new_events) :
            /\ \A f \in {new_events[i].title, new_events[i].desc} :
                   \A k \in 1..Len(f) : f[k] = SQ => (k > 1 /\ f[k - 1] = BS)
            /\ \A f \in {new_events[i].date, new_events[i].title, new_events[i].desc} :
                   SafeInLiteral(f, 1)

\* the index of the last character of the only anchor of doc
AnchorEnd(doc) == FindFrom(doc, ANCHOR, 1) + Len(ANCHOR) - 1

\* C6: injecting an empty list of records into a document with exactly one
\* anchor adds nothing but white space after the anchor: no comma and no
\* other token in front of the first record.
C6_EmptyInjectionAddsNoToken ==
    (pc = "Done" /\ new_events = <<>> /\ Count(html, ANCHOR) = 1) =>
        LET p == AnchorEnd(html)
            n == Len(file) - Len(html)
        IN  /\ n >= 0
            /\ SubSeq(file, 1, p) = SubSeq(html, 1, p)
            /\ \A k \in (p + 1)..(p + n) : file[k] \in Whitespace
            /\ SubSeq(file, p + n + 1, Len(file)) = SubSeq(html, p + 1, Len(html))

\* the blocks of 1 to 3 records in the given order, a comma and a line
\* break between two blocks
BlocksInOrder(events) ==
    IF Len(events) = 1 THEN EventStr(events[1])
    ELSE IF Len(events) = 2
         THEN EventStr(events[1]) \o <<",", NL>> \o EventStr(events[2])
    ELSE EventStr(events[1]) \o <<",", NL>> \o EventStr(events[2])
             \o <<",", NL>> \o EventStr(events[3])

\* C7: for a document with exactly one anchor and 1 to 3 records, the
\* result is the original text up to and including the anchor, a line
\* break, the records' blocks in the given order separated by commas, one
\* trailing comma, and the original text after the anchor, unchanged.
C7_InjectedAfterAnchor ==
    (pc = "Done" /\ Count(html, ANCHOR) = 1 /\ Len(new_events) \in 1..3) =>
        LET p == AnchorEnd(html)
        IN  file = SubSeq(html, 1, p) \o <<NL>> \o BlocksInOrder(new_events)
                       \o <<",">> \o SubSeq(html, p + 1, Len(html))

C7_Witness ==
    /\ pc = "Done"
    /\ Count(html, ANCHOR) = 1
    /\ Len(new_events) = 3
    /\ new_events[1] # new_events[2]
    /\ FindFrom(html, EventStr(OldEvent), 1) > AnchorEnd(html)
    /\ FindFrom(file, EventStr(new_events[3]), 1) < FindFrom(file, EventStr(OldEvent), 1)

\* the tags list of the one object of the reply
InputTags == response.value.elems[1].tags.items

\* the indices of the input tags that are in the vocabulary
ValidIdx == {i \in 1..Len(InputTags) : InputTags[i].s \in valid_tags}

\* the k-th smallest element of S
Kth(S, k) == CHOOSE i \in S : Cardinality({j \in S : j <= i}) = k

\* C8: every record the validator returns has a non-empty tags list whose
\* members all belong to the 12-tag vocabulary: the input's valid tags in the
\* input's order, or the single tag crisis when the input has no valid tag.
C8_TagsInVocabulary ==
    pc \in {"Inject", "Done"} =>
        \A i \in 1..Len(new_events) :
            LET tags == new_events[i].tags
            IN  /\ tags # <<>>
                /\ \A k \in 1..Len(tags) : tags[k] \in valid_tags
                /\ IF ValidIdx = {}
                   THEN tags = << <<"c", "r", "i", "s", "i", "s">> >>
                   ELSE /\ Len(tags) = Cardinality(ValidIdx)
                        /\ \A k \in 1..Len(tags) : tags[k] = InputTags[Kth(ValidIdx, k)].s

C8_Witness ==
    /\ pc = "Done"
    /\ Len(InputTags) = 3
    /\ Len(new_events[1].tags) = 2
    /\ new_events[1].tags[1] # new_events[1].tags[2]
    /\ InputTags[2].s \notin valid_tags

\* the timestamp T of an entry: the published time, or else the updated time
TimeOf(e) ==
    IF e.published_parsed.set THEN e.published_parsed ELSE e.updated_parsed

\* T is absent or T >= now - W
Recent(e) == ~TimeOf(e).set \/ TimeOf(e).at >= now - HOURS_LOOKBACK

\* the entry processed last was appended to items
Appended == Len(items) = entry.before + 1

\* C9, as claimed: an entry is retained if and only if T is absent or
\* T >= now - W, and nothing else about the entry decides it.
C9_RetainedIffRecent == entry.set => (Appended <=> Recent(entry.e))

\* the indices of items that hold the first occurrence of their title
FirstIdx == {i \in 1..Len(items) : \A j \in 1..(i - 1) : items[j].title # items[i].title}

\* C9, amended: an entry is appended if and only if T is absent or
\* T >= now - W and its stripped title is not empty; the collector returns
\* the appended items without those whose title an earlier one has.
C9_RetainedIffRecentAndTitled ==
    /\ entry.set =>
           /\ Appended <=> (Recent(entry.e) /\ Strip(entry.e.title) # <<>>)
           /\ Appended => items[Len(items)].title = Strip(entry.e.title)
           /\ ~Appended => Len(items) = entry.before
    /\ FetchReturned =>
           /\ Len(news_items) = Cardinality(FirstIdx)
           /\ \A k \in 1..Len(news_items) : news_items[k] = items[Kth(FirstIdx, k)]

C9_Witness ==
    /\ FetchReturned
    /\ entry.set
    /\ TimeOf(entry.e) = At(Cutoff(now))
    /\ entry.e.updated_parsed = At(Cutoff(now) - 1)
    /\ Appended
    /\ Len(news_items) < Len(items)

\* C10: after an injection into a document with exactly one anchor, the
\* title pattern finds the complete title of every injected record and every
\* title it found before, and the document still holds exactly one anchor.
C10_TitlesStayDiscoverable ==
    (pc = "Done" /\ Count(html, ANCHOR) = 1 /\ new_events # <<>>) =>
        LET found == Range(extract_existing_titles(file))
        IN  /\ \A i \in 1..Len(new_events) : new_events[i].title \in found
            /\ \A t \in Range(existing_titles) : t \in found
            /\ Count(file, ANCHOR) = 1

====
